---- MODULE Spec2Model ----
\* Model of the database log sink resource
\* (digitalocean/database/resource_database_logsink.go): the Create, Read,
\* Update, Delete and Import handlers, the keyed lock table they share
\* (logsinkMutexKV) and the remote log sink API they call.
\*
\* Strings are sequences of tokens: a variable part (a cluster ID, a name, an
\* import key) is a sequence of one-character tokens, a literal of a format
\* string is one token.  "" is <<>>.
\*
\* schema.ResourceData is a store: Get returns the planned value while a
\* Create or an Update runs and the stored value otherwise, Set stores what
\* it is given, and the attribute "id" is the ID that SetId sets (the state
\* keeps the ID under "id": resource_database_logsink_test.go reads it from
\* rs.Primary.Attributes["id"]).
\*
\* internal/mutexkv is not part of the sources at hand: the lock table is
\* modelled from its specification, an entry per key with a count of the
\* callers that hold or wait for it and the holder of its mutex.
\*
\* The remote API is the environment.  What the sources do not fix about it
\* is chosen in Init and kept: whether the ID of a sink is generated or is
\* its name (idPolicy), and whether the answer to an Update carries the sink
\* (bodyPolicy).
EXTENDS Integers, Sequences, FiniteSets, TLC

\* ---------------------------------------------------------------- bounds
NumRecords == 2
MaxSinks == 2
MaxLen == 4

Records == 1..NumRecords

\* ------------------------------------------------------------- the inputs
Clusters == {<<"c">>, <<"d">>}
Names == <<<<"m">>, <<"n">>, <<"o">>, <<"p">>>>

\* The name the configuration gives the log sink of record r.
NameOf(r) == Names[r]
Alphabet == {"c", "m", ","}

\* The keys of the "config" block of the schema.
ConfigKeys ==
  {"url", "index_prefix", "index_days_max", "timeout", "server", "port",
   "tls", "format", "logline", "sd", "ca", "key", "cert"}

\* The zero value of godo.DatabaseLogsinkConfig.
ZeroConfig ==
  [url |-> "", index_prefix |-> "", index_days_max |-> 0, timeout |-> 0,
   server |-> "", port |-> 0, tls |-> FALSE, format |-> "", logline |-> "",
   sd |-> "", ca |-> "", key |-> "", cert |-> ""]

\* The rsyslog configuration of the acceptance test.
RsyslogConfig ==
  [ZeroConfig EXCEPT !.server = "localhost", !.port = 443, !.tls = TRUE,
                     !.format = "rfc5424"]

\* A configuration that uses the "url" family of fields.
ElasticConfig ==
  [ZeroConfig EXCEPT !.url = "https://es", !.index_prefix = "logs",
                     !.index_days_max = 7]

\* The (type, config) pairs a user writes.
RsyslogSpec == [type |-> "rsyslog", config |-> RsyslogConfig]
ElasticSpec == [type |-> "elasticsearch", config |-> ElasticConfig]
SpecSet == {RsyslogSpec, ElasticSpec}

\* The value of a map attribute that was never set.
NoConfig == [k \in {} |-> ""]

\* A record the runtime does not hold: every attribute at its zero value.
ZeroRecord ==
  [id |-> <<>>, cluster_id |-> <<>>, name |-> <<>>, type |-> "",
   config |-> NoConfig]

NoSpec == [cluster_id |-> <<>>, name |-> <<>>, type |-> "", config |-> NoConfig]

\* The zero value of godo.DatabaseLogsink (new(godo.DatabaseLogsink)).
ZeroSink == [ID |-> <<>>, Name |-> <<>>, Type |-> "", Config |-> ZeroConfig]

\* The responses of the remote API, as the handlers see them: resp is nil or
\* carries a status code, err is set or not.
NoResp == [nil |-> TRUE, StatusCode |-> 0, err |-> FALSE]
RespOK == [nil |-> FALSE, StatusCode |-> 200, err |-> FALSE]
RespNotFound == [nil |-> FALSE, StatusCode |-> 404, err |-> TRUE]
RespServerError == [nil |-> FALSE, StatusCode |-> 500, err |-> TRUE]
RespNoAnswer == [nil |-> TRUE, StatusCode |-> 0, err |-> TRUE]

VARIABLES
  d,          \* d[r]: the schema.ResourceData of record r (Id and attributes)
  desired,    \* desired[r]: the planned configuration the runtime put into d
  remote,     \* the log sinks that exist at the remote API
  nextSink,   \* the number of the next sink ID the remote API generates
  idPolicy,   \* how the remote API chooses the ID of a new sink
  bodyPolicy, \* what the body of the remote API's answer to Update holds
  table,      \* logsinkMutexKV: key -> [refcount, holder]
  pc,         \* pc[r]: where the operation running on record r stands
  op,         \* op[r]: the operation running (or last run) on record r
  resp,       \* resp[r]: the answer of the operation's external call
  result,     \* result[r]: what the last operation on r returned
  expired,    \* expired[r]: the deadline of the operation's ctx has passed
  fresh,      \* fresh[r]: r was just created and nothing happened out of band
  importID    \* importID[r]: the ID the importer was called with

service == <<idPolicy, bodyPolicy>>
call == <<op, resp, result, expired, fresh>>

vars ==
  <<d, desired, remote, nextSink, service, table, pc, call, importID>>

\* ------------------------------------------------------- pure functions

\* A key that leaves the cluster ID out: one key for every cluster.
lockKeyShared(clusterID) ==
  <<"digitalocean_database_cluster/">> \o <<"/log_sinks">>

\* fmt.Sprintf("digitalocean_database_cluster/%s/log_sinks", clusterID)
lockKey(clusterID) ==
  <<"digitalocean_database_cluster/">> \o clusterID \o <<"/log_sinks">>

\* The two arguments of the format string taken in the other order.
makeDatabaseLogsinkIDSwapped(clusterID, name) ==
  name \o <<"/logsink/">> \o clusterID

\* fmt.Sprintf("%s/logsink/%s", clusterID, name)
makeDatabaseLogsinkID(clusterID, name) ==
  clusterID \o <<"/logsink/">> \o name

\* strings.Contains(s, sep) for a one-character sep
Contains(s, sep) == \E i \in 1..Len(s) : s[i] = sep

\* strings.Split(s, sep) for a one-character sep: the parts between the
\* separators, len = (number of separators) + 1.
RECURSIVE Split(_, _)
Split(s, sep) ==
  IF ~Contains(s, sep)
    THEN <<s>>
    ELSE LET i == CHOOSE j \in 1..Len(s) :
                    s[j] = sep /\ \A k \in 1..(j - 1) : s[k] # sep
         IN <<SubSeq(s, 1, i - 1)>> \o Split(SubSeq(s, i + 1, Len(s)), sep)

\* The keys flattenLogsinkConfig writes.
FlatKeys == (ConfigKeys \ {"url"}) \cup {"urls"}

\* flattenLogsinkConfig: the one item of the list it returns.
flattenLogsinkConfig(config) ==
  [k \in FlatKeys |-> IF k = "urls" THEN config["url"] ELSE config[k]]

\* expandLogsinkConfig: config[0] read key by key.
expandLogsinkConfig(configMap) == [k \in ConfigKeys |-> configMap[k]]

\* The ID the remote API generates for its n-th sink.
SinkID(n) == [i \in 1..n |-> "s"]

\* --------------------------------------------------------- ResourceData

\* d.Get(k): during Create and Update the planned value, otherwise the
\* value of the record.
Get(r, k) ==
  IF op[r] \in {"create", "update"} THEN desired[r][k] ELSE d[r][k]

\* d.GetOk("config"): ok when the value is not the zero value of a map.
GetOkConfig(r) == Get(r, "config") # NoConfig

\* d.SetId(id); "id" is the attribute the ID is stored under.
SetId(rec, id) == [rec EXCEPT !.id = id]

\* setDatabaseLogsinkAttributes(d, logsink); ok is d.GetOk("config").
setDatabaseLogsinkAttributes(rec, logsink, ok) ==
  [rec EXCEPT !.id = logsink.ID,
              !.name = logsink.Name,
              !.type = logsink.Type,
              !.config = IF ok THEN flattenLogsinkConfig(logsink.Config) ELSE @]

\* What the runtime keeps of d when a handler returns: a record whose ID
\* was set to "" is gone.
Persist(rec) == IF rec.id = <<>> THEN ZeroRecord ELSE rec

\* ------------------------------------------------------ the lock table

None == 0

\* Lock(key), first half: the caller is counted as a waiter; the entry is
\* made on first use.
LockEnter(t, k) ==
  IF k \in DOMAIN t
    THEN [t EXCEPT ![k].refcount = @ + 1]
    ELSE [x \in DOMAIN t \cup {k} |->
            IF x = k THEN [refcount |-> 1, holder |-> None] ELSE t[x]]

\* Lock(key), second half: the mutex of the entry is free.
LockFree(t, k) == k \in DOMAIN t /\ t[k].holder = None

LockTake(t, k, r) == [t EXCEPT ![k].holder = r]

\* Unlock(key): the mutex is released, the caller no longer counted, and an
\* entry nobody holds or waits for is removed.
UnlockKey(t, k) ==
  IF t[k].refcount = 1
    THEN [x \in DOMAIN t \ {k} |-> t[x]]
    ELSE [t EXCEPT ![k].holder = None, ![k].refcount = @ - 1]

\* A key per log sink instead of per cluster.
KeyOfSink(r) == lockKey(Get(r, "cluster_id") \o <<"/">> \o NameOf(r))

\* The handler's local variable key.
KeyOf(r) == lockKey(Get(r, "cluster_id"))

Holds(r) == \E k \in DOMAIN table : table[k].holder = r

\* ------------------------------------------------------- the remote API

Sink(c, id, name, type, config) ==
  [cluster |-> c, ID |-> id, Name |-> name, Type |-> type, Config |-> config]

\* The godo.DatabaseLogsink of a remote sink.
Logsink(s) == [ID |-> s.ID, Name |-> s.Name, Type |-> s.Type, Config |-> s.Config]

\* The sinks of cluster c the service finds under the identifier id.
Found(c, id) == {s \in remote : s.cluster = c /\ s.ID = id}

\* The IDs the service may give a new sink of cluster c named name: one it
\* generates, or (a service that addresses sinks by name) the name itself.
FreeIDs(c, name) ==
  {id \in (IF idPolicy = "name" THEN {name}
           ELSE IF nextSink <= MaxSinks THEN {SinkID(nextSink)} ELSE {}) :
     Found(c, id) = {}}

\* ------------------------------------------------------------------ Init

Init ==
  /\ d = [r \in Records |-> ZeroRecord]
  /\ desired = [r \in Records |-> NoSpec]
  /\ remote = {}
  /\ nextSink = 1
  /\ idPolicy \in {"generated", "name"}
  /\ bodyPolicy \in {"sink", "empty"}
  /\ table = [k \in {} |-> [refcount |-> 0, holder |-> None]]
  /\ pc = [r \in Records |-> "idle"]
  /\ op = [r \in Records |-> "none"]
  /\ resp = [r \in Records |-> NoResp]
  /\ result = [r \in Records |-> "none"]
  /\ expired = [r \in Records |-> FALSE]
  /\ fresh = [r \in Records |-> FALSE]
  /\ importID = [r \in Records |-> <<>>]

\* The runtime starts operation o on record r.
Start(r, o) ==
  /\ op' = [op EXCEPT ![r] = o]
  /\ resp' = [resp EXCEPT ![r] = NoResp]
  /\ result' = [result EXCEPT ![r] = "none"]
  /\ expired' = [expired EXCEPT ![r] = FALSE]
  /\ fresh' = [fresh EXCEPT ![r] = @ /\ o = "read"]

\* The handler of record r has reached a return statement with result res,
\* having seen the answer rsp and left the record as rec.
Reach(r, rsp, res, rec) ==
  /\ resp' = [resp EXCEPT ![r] = rsp]
  /\ result' = [result EXCEPT ![r] = res]
  /\ d' = [d EXCEPT ![r] = rec]

\* ---------------------------------------------------------------- Create

\* resourceDigitalOceanDatabaseLogsinkCreate up to Lock(key): the planned
\* values are read, opts is built, the caller queues for the key.
CreateBegin(r, c, s) ==
  /\ pc[r] = "idle"
  /\ d[r].id = <<>>
  /\ desired' = [desired EXCEPT ![r] =
                   [cluster_id |-> c, name |-> NameOf(r), type |-> s.type,
                    config |-> s.config]]
  /\ pc' = [pc EXCEPT ![r] = "waiting"]
  /\ Start(r, "create")
  /\ UNCHANGED <<d, remote, nextSink, service, importID>>
  /\ table' = LockEnter(table, KeyOf(r)')

\* The Create half of a replacement.  name and cluster_id are ForceNew: when
\* the configuration changes one of them the runtime destroys the record
\* with Delete and, once Delete has succeeded, calls Create with the new
\* plan.
RecreateBegin(r, c, n, s) ==
  /\ pc[r] = "idle"
  /\ d[r].id = <<>>
  /\ op[r] = "delete" /\ result[r] = "ok"
  /\ desired' = [desired EXCEPT ![r] =
                   [cluster_id |-> c, name |-> n, type |-> s.type,
                    config |-> s.config]]
  /\ pc' = [pc EXCEPT ![r] = "waiting"]
  /\ Start(r, "create")
  /\ UNCHANGED <<d, remote, nextSink, service, importID>>
  /\ table' = LockEnter(table, KeyOf(r)')

\* Lock(key) returns: the caller holds the key.
Acquire(r) ==
  /\ pc[r] = "waiting"
  /\ LockFree(table, KeyOf(r))
  /\ table' = LockTake(table, KeyOf(r), r)
  /\ pc' = [pc EXCEPT ![r] = "calling"]
  /\ UNCHANGED <<d, desired, remote, nextSink, service, call, importID>>

\* client.Databases.CreateLogsink and the rest of the handler up to its
\* return statement.
CreateCall(r) ==
  /\ pc[r] = "calling"
  /\ op[r] = "create"
  /\ LET clusterID == Get(r, "cluster_id")
         opts == [Name |-> Get(r, "name"), Type |-> Get(r, "type"),
                  Config |-> Get(r, "config")]
         answers ==
           [resp : {RespServerError}, id : {<<>>}] \cup
           [resp : {RespOK}, id : FreeIDs(clusterID, opts.Name)]
     IN \E a \in answers :
          LET s == Sink(clusterID, a.id, opts.Name, opts.Type, opts.Config)
              logsink == Logsink(s)
          IN /\ remote' = IF a.resp.err THEN remote ELSE remote \cup {s}
             /\ nextSink' = IF ~a.resp.err /\ a.id = SinkID(nextSink)
                              THEN nextSink + 1 ELSE nextSink
             /\ IF a.resp.err
                  THEN Reach(r, a.resp, "error", d[r])
                  ELSE Reach(r, a.resp, "ok",
                             setDatabaseLogsinkAttributes(
                               SetId(d[r], makeDatabaseLogsinkID(clusterID, logsink.Name)),
                               logsink, GetOkConfig(r)))
  /\ pc' = [pc EXCEPT ![r] = "deferred"]
  /\ UNCHANGED <<desired, service, table, op, expired, fresh, importID>>

\* Unlock(key) placed after the error check instead of deferred: a handler
\* that returns an error keeps the key.
ReturnUnlockOnSuccess(r) ==
  /\ pc[r] = "deferred"
  /\ table' = IF result[r] = "ok" THEN UnlockKey(table, KeyOf(r)) ELSE table
  /\ pc' = [pc EXCEPT ![r] = "idle"]
  /\ d' = [d EXCEPT ![r] = Persist(@)]
  /\ UNCHANGED <<desired, remote, nextSink, service, call, importID>>

\* A handler without the deferred Unlock(key): it returns with the key held.
ReturnKeepsKey(r) ==
  /\ pc[r] = "deferred"
  /\ pc' = [pc EXCEPT ![r] = "idle"]
  /\ d' = [d EXCEPT ![r] = Persist(@)]
  /\ UNCHANGED <<desired, remote, nextSink, service, table, call, importID>>

\* The deferred Unlock(key) runs and the handler returns to the runtime.
\* The runtime keeps the planned cluster_id with a record that Create made,
\* and keeps the plan only for the Read that follows a Create.
Return(r) ==
  /\ pc[r] = "deferred"
  /\ table' = UnlockKey(table, KeyOf(r))
  /\ pc' = [pc EXCEPT ![r] = "idle"]
  /\ LET made == op[r] = "create" /\ result[r] = "ok"
     IN /\ d' = [d EXCEPT ![r] =
                   Persist(IF made
                             THEN [@ EXCEPT !.cluster_id = desired[r].cluster_id]
                             ELSE @)]
        /\ desired' = [desired EXCEPT ![r] = IF made THEN @ ELSE NoSpec]
        /\ fresh' = [fresh EXCEPT ![r] = made]
  /\ resp' = [resp EXCEPT ![r] = NoResp]
  /\ expired' = [expired EXCEPT ![r] = FALSE]
  /\ UNCHANGED <<remote, nextSink, service, op, result, importID>>

\* ---------------------------------------------------------------- Update

\* A schema whose name is not ForceNew: the runtime plans a changed name as
\* an Update.
UpdateBeginRenames(r, s) ==
  /\ pc[r] = "idle"
  /\ d[r].id # <<>>
  /\ \E n \in {NameOf(q) : q \in Records} :
       desired' = [desired EXCEPT ![r] =
                     [cluster_id |-> d[r].cluster_id, name |-> n,
                      type |-> s.type, config |-> s.config]]
  /\ pc' = [pc EXCEPT ![r] = "waiting"]
  /\ Start(r, "update")
  /\ UNCHANGED <<d, remote, nextSink, service, importID>>
  /\ table' = LockEnter(table, KeyOf(r)')

\* resourceDigitalOceanDatabaseLogsinkUpdate up to Lock(key).  The runtime
\* plans a new type and config; cluster_id and name are ForceNew and stay.
UpdateBegin(r, s) ==
  /\ pc[r] = "idle"
  /\ d[r].id # <<>>
  /\ desired' = [desired EXCEPT ![r] =
                   [cluster_id |-> d[r].cluster_id, name |-> d[r].name,
                    type |-> s.type, config |-> s.config]]
  /\ pc' = [pc EXCEPT ![r] = "waiting"]
  /\ Start(r, "update")
  /\ UNCHANGED <<d, remote, nextSink, service, importID>>
  /\ table' = LockEnter(table, KeyOf(r)')

\* client.Databases.UpdateLogsink(clusterID, name, opts) and the rest of the
\* handler.  The body of the response decodes to the updated sink or, when
\* it holds none, leaves the new(godo.DatabaseLogsink) as it is.
UpdateCall(r) ==
  /\ pc[r] = "calling"
  /\ op[r] = "update"
  /\ LET clusterID == Get(r, "cluster_id")
         name == Get(r, "name")
         opts == [Config |-> expandLogsinkConfig(Get(r, "config"))]
         hit == Found(clusterID, name)
         updated == {[s EXCEPT !.Config = opts.Config] : s \in hit}
         answers ==
           [resp : {RespServerError}, logsink : {ZeroSink}] \cup
           (IF hit = {}
              THEN [resp : {RespNotFound}, logsink : {ZeroSink}]
              ELSE [resp : {RespOK},
                    logsink : IF bodyPolicy = "sink"
                                THEN {Logsink(s) : s \in updated}
                                ELSE {ZeroSink}])
     IN \E a \in answers :
          /\ remote' = IF a.resp.err THEN remote
                       ELSE (remote \ hit) \cup updated
          /\ IF a.resp.err
               THEN Reach(r, a.resp, "error", d[r])
               ELSE Reach(r, a.resp, "ok",
                          setDatabaseLogsinkAttributes(d[r], a.logsink,
                                                       GetOkConfig(r)))
  /\ pc' = [pc EXCEPT ![r] = "deferred"]
  /\ UNCHANGED <<desired, nextSink, service, table, op, expired, fresh,
                 importID>>

\* ---------------------------------------------------------------- Delete

\* resourceDigitalOceanDatabaseLogsinkDelete up to Lock(key).
DeleteBegin(r) ==
  /\ pc[r] = "idle"
  /\ d[r].id # <<>>
  /\ desired' = [desired EXCEPT ![r] = NoSpec]
  /\ pc' = [pc EXCEPT ![r] = "waiting"]
  /\ Start(r, "delete")
  /\ UNCHANGED <<d, remote, nextSink, service, importID>>
  /\ table' = LockEnter(table, KeyOf(r)')

\* A Delete that clears the ID before it looks at err.
DeleteCallClearsFirst(r) ==
  /\ pc[r] = "calling"
  /\ op[r] = "delete"
  /\ LET hit == Found(Get(r, "cluster_id"), Get(r, "id"))
         answers ==
           {RespServerError} \cup (IF hit = {} THEN {RespNotFound} ELSE {RespOK})
     IN \E a \in answers :
          /\ remote' = IF a.err THEN remote ELSE remote \ hit
          /\ Reach(r, a, IF a.err THEN "error" ELSE "ok", SetId(d[r], <<>>))
  /\ pc' = [pc EXCEPT ![r] = "deferred"]
  /\ UNCHANGED <<desired, nextSink, service, table, op, expired, fresh,
                 importID>>

\* A Delete that forgets the record without asking the remote API to remove
\* the log sink.
DeleteCallLocalOnly(r) ==
  /\ pc[r] = "calling"
  /\ op[r] = "delete"
  /\ Reach(r, RespOK, "ok", SetId(d[r], <<>>))
  /\ pc' = [pc EXCEPT ![r] = "deferred"]
  /\ UNCHANGED <<desired, remote, nextSink, service, table, op, expired,
                 fresh, importID>>

\* client.Databases.DeleteLogsink(clusterID, id) and the rest of the handler.
DeleteCall(r) ==
  /\ pc[r] = "calling"
  /\ op[r] = "delete"
  /\ LET clusterID == Get(r, "cluster_id")
         id == Get(r, "id")
         hit == Found(clusterID, id)
         answers ==
           {RespServerError} \cup (IF hit = {} THEN {RespNotFound} ELSE {RespOK})
     IN \E a \in answers :
          /\ remote' = IF a.err THEN remote ELSE remote \ hit
          /\ IF a.err
               THEN Reach(r, a, "error", d[r])
               ELSE Reach(r, a, "ok", SetId(d[r], <<>>))
  /\ pc' = [pc EXCEPT ![r] = "deferred"]
  /\ UNCHANGED <<desired, nextSink, service, table, op, expired, fresh,
                 importID>>

\* ------------------------------------------------------------------ Read

\* resourceDigitalOceanDatabaseLogsinkRead: GetLogsink is sent.
ReadBegin(r) ==
  /\ pc[r] = "idle"
  /\ d[r].id # <<>>
  /\ pc' = [pc EXCEPT ![r] = "reading"]
  /\ Start(r, "read")
  /\ UNCHANGED <<d, desired, remote, nextSink, service, table, importID>>

\* Every answer of the service, whatever its status, taken for not-found.
IsGoneAnyStatus(rsp) == ~rsp.nil

\* resp != nil && resp.StatusCode == 404
IsGone(rsp) == ~rsp.nil /\ rsp.StatusCode = 404

\* A Read that takes the key of its cluster for its call: it returns only
\* when no Create, Update or Delete holds the key.
ReadReturnUnderKey(r) ==
  /\ pc[r] = "reading"
  /\ lockKey(d[r].cluster_id) \notin DOMAIN table
  /\ pc' = [pc EXCEPT ![r] = "idle"]
  /\ Reach(r, RespOK, "ok", d[r])
  /\ UNCHANGED <<desired, remote, nextSink, service, table, op, expired, fresh,
                 importID>>

\* GetLogsink(clusterID, id) answers and the handler returns.
ReadReturn(r) ==
  /\ pc[r] = "reading"
  /\ LET clusterID == Get(r, "cluster_id")
         id == Get(r, "id")
         hit == Found(clusterID, id)
         answers ==
           [resp : {RespServerError, RespNoAnswer}, logsink : {ZeroSink}] \cup
           (IF hit = {}
              THEN [resp : {RespNotFound}, logsink : {ZeroSink}]
              ELSE [resp : {RespOK}, logsink : {Logsink(s) : s \in hit}])
     IN \E a \in answers :
          LET rec == IF a.resp.err
                       THEN IF IsGone(a.resp) THEN SetId(d[r], <<>>) ELSE d[r]
                       ELSE setDatabaseLogsinkAttributes(d[r], a.logsink,
                                                         GetOkConfig(r))
              res == IF a.resp.err /\ ~IsGone(a.resp) THEN "error" ELSE "ok"
          IN /\ Reach(r, a.resp, res, Persist(rec))
             /\ desired' = [desired EXCEPT ![r] =
                              IF rec.id = <<>> THEN NoSpec ELSE @]
  /\ pc' = [pc EXCEPT ![r] = "idle"]
  /\ UNCHANGED <<remote, nextSink, service, table, op, expired, fresh,
                 importID>>

\* ---------------------------------------------------------------- Import

\* The keys a user may pass to import: every string of the alphabet of at
\* most MaxLen characters, but the empty one.
ImportKeys == UNION {[1..n -> Alphabet] : n \in 1..MaxLen}

\* The runtime puts the key into d.Id() and calls the importer.
ImportRequest(r, k) ==
  /\ pc[r] = "idle"
  /\ d[r].id = <<>>
  /\ d' = [d EXCEPT ![r] = SetId(ZeroRecord, k)]
  /\ importID' = [importID EXCEPT ![r] = k]
  /\ pc' = [pc EXCEPT ![r] = "importing"]
  /\ Start(r, "import")
  /\ UNCHANGED <<desired, remote, nextSink, service, table>>

\* resourceDigitalOceanDatabaseLogsinkImport.  On the error path it returns
\* nil for the records: the runtime holds none.
ImportRun(r) ==
  /\ pc[r] = "importing"
  /\ IF Contains(d[r].id, ",")
       THEN LET s == Split(d[r].id, ",")
            IN Reach(r, NoResp, "ok",
                     [SetId(d[r], makeDatabaseLogsinkID(s[1], s[2]))
                        EXCEPT !.cluster_id = s[1], !.name = s[2]])
       ELSE Reach(r, NoResp, "error", ZeroRecord)
  /\ pc' = [pc EXCEPT ![r] = "idle"]
  /\ UNCHANGED <<desired, remote, nextSink, service, table, op, expired, fresh,
                 importID>>

\* ------------------------------------------------------- the environment

\* A log sink is removed at the service by someone else.
OutOfBandDelete(s) ==
  /\ s \in remote
  /\ remote' = remote \ {s}
  /\ fresh' = [r \in Records |-> FALSE]
  /\ UNCHANGED <<d, desired, nextSink, service, table, pc, op, resp, result,
                 expired, importID>>

\* The deadline of the ctx of a Create, Update or Delete passes while it is
\* blocked in Lock(key) behind the holder of the key.  The handlers never
\* look at ctx: Lock takes the key alone and the client is given
\* context.Background().
DeadlineExceeded(r) ==
  /\ pc[r] = "waiting"
  /\ ~LockFree(table, KeyOf(r))
  /\ ~expired[r]
  /\ expired' = [expired EXCEPT ![r] = TRUE]
  /\ UNCHANGED <<d, desired, remote, nextSink, service, table, pc, op, resp,
                 result, fresh, importID>>

\* ------------------------------------------------------ specifications

\* Every record, operated on concurrently; each log sink is planned with
\* the rsyslog configuration.
Next ==
  \/ \E r \in Records, c \in Clusters : CreateBegin(r, c, RsyslogSpec)
  \/ \E r \in Records : UpdateBegin(r, RsyslogSpec)
  \/ \E r \in Records : DeleteBegin(r)
  \/ \E r \in Records : Acquire(r)
  \/ \E r \in Records : CreateCall(r)
  \/ \E r \in Records : UpdateCall(r)
  \/ \E r \in Records : DeleteCall(r)
  \/ \E r \in Records : Return(r)
  \/ \E r \in Records : DeadlineExceeded(r)

\* The service of this specification answers an Update with the sink.
InitConcurrent == Init /\ bodyPolicy = "sink"

Spec == InitConcurrent /\ [][Next]_vars

\* One record, with every planned configuration, Read, and changes made
\* out of band.
First == CHOOSE r \in Records : \A q \in Records : r <= q

NextData ==
  \/ \E c \in Clusters, s \in SpecSet : CreateBegin(First, c, s)
  \/ \E s \in SpecSet : UpdateBegin(First, s)
  \/ DeleteBegin(First)
  \/ Acquire(First)
  \/ CreateCall(First)
  \/ UpdateCall(First)
  \/ DeleteCall(First)
  \/ Return(First)
  \/ ReadBegin(First)
  \/ ReadReturn(First)
  \/ \E s \in remote : OutOfBandDelete(s)

SpecData == Init /\ [][NextData]_vars

\* The importer alone, on one record and every key of ImportKeys.
NextImport ==
  \/ \E k \in ImportKeys : ImportRequest(First, k)
  \/ ImportRun(First)

SpecImport == Init /\ [][NextImport]_vars

\* Every record, with Create, Update and Delete as in Next and with Read
\* running beside them.
NextRead ==
  \/ \E r \in Records, c \in Clusters : CreateBegin(r, c, RsyslogSpec)
  \/ \E r \in Records : UpdateBegin(r, RsyslogSpec)
  \/ \E r \in Records : DeleteBegin(r)
  \/ \E r \in Records : Acquire(r)
  \/ \E r \in Records : CreateCall(r)
  \/ \E r \in Records : UpdateCall(r)
  \/ \E r \in Records : DeleteCall(r)
  \/ \E r \in Records : Return(r)
  \/ \E r \in Records : ReadBegin(r)
  \/ \E r \in Records : ReadReturn(r)

SpecRead == InitConcurrent /\ [][NextRead]_vars

\* One record through its life: Create, Update, Delete, and the replacement
\* of the record when the configuration changes its name or its cluster.
NextReplace ==
  \/ \E c \in Clusters : CreateBegin(First, c, RsyslogSpec)
  \/ \E c \in Clusters, q \in Records :
       RecreateBegin(First, c, NameOf(q), RsyslogSpec)
  \/ UpdateBegin(First, RsyslogSpec)
  \/ DeleteBegin(First)
  \/ Acquire(First)
  \/ CreateCall(First)
  \/ UpdateCall(First)
  \/ DeleteCall(First)
  \/ Return(First)

SpecReplace == InitConcurrent /\ [][NextReplace]_vars

\* Create, Update and Delete on every record, with what their progress
\* rests on: an external call that was made returns, a handler that reached
\* its return statement returns, and Lock(key) hands a key that is free
\* again and again to a caller that keeps waiting for it.
NextLive ==
  \/ \E r \in Records, c \in Clusters : CreateBegin(r, c, RsyslogSpec)
  \/ \E r \in Records : UpdateBegin(r, RsyslogSpec)
  \/ \E r \in Records : DeleteBegin(r)
  \/ \E r \in Records : Acquire(r)
  \/ \E r \in Records : CreateCall(r)
  \/ \E r \in Records : UpdateCall(r)
  \/ \E r \in Records : DeleteCall(r)
  \/ \E r \in Records : Return(r)

Fairness ==
  \A r \in Records :
    /\ SF_vars(Acquire(r))
    /\ WF_vars(CreateCall(r) \/ UpdateCall(r) \/ DeleteCall(r))
    /\ WF_vars(Return(r))

SpecLive == InitConcurrent /\ [][NextLive]_vars /\ Fairness

\* ---------------------------------------------------------------- claims

Mutating == {"create", "update", "delete"}

\* The handler's local variable clusterID.
ClusterOf(r) == Get(r, "cluster_id")

\* The operation on r holds its key: it is in its external call or between
\* the call and the deferred Unlock.
InSection(r) == pc[r] \in {"calling", "deferred"}

\* C1: of the Creates, Updates and Deletes that run concurrently on log sinks
\* of one cluster, at most one is inside its external mutating call, and no
\* second one enters its call before the first has released the key.
C1_OneCallPerCluster ==
  \A r1, r2 \in Records :
    (r1 # r2 /\ InSection(r1) /\ InSection(r2)) => ClusterOf(r1) # ClusterOf(r2)

\* An operation is inside its external call while another one, on the same
\* cluster, waits for the key.
C1_Witness ==
  \E r1, r2 \in Records :
    /\ pc[r1] = "calling" /\ pc[r2] = "waiting"
    /\ ClusterOf(r1) = ClusterOf(r2)
    /\ op[r1] # op[r2]

\* C2: an operation that waits for the key of its cluster while no operation
\* of that cluster holds it is not blocked, whatever operations of other
\* clusters hold or wait for: the key of its cluster is free to take.
C2_ClustersDoNotBlock ==
  \A r \in Records :
    (/\ pc[r] = "waiting"
     /\ \A q \in Records \ {r} : InSection(q) => ClusterOf(q) # ClusterOf(r))
    => ENABLED Acquire(r)

\* Two operations on different clusters are inside their external calls at
\* the same time.
C2_Witness ==
  \E r1, r2 \in Records :
    /\ pc[r1] = "calling" /\ pc[r2] = "calling"
    /\ ClusterOf(r1) # ClusterOf(r2)

\* C3: a Create, Update or Delete that has returned, with success or with an
\* error, holds no key.
C3_ReleasedOnReturn ==
  \A r \in Records : pc[r] = "idle" => ~Holds(r)

\* A Create, Update or Delete has returned an error of the remote API after
\* it held the key.
C3_Witness ==
  \E r \in Records :
    pc[r] = "idle" /\ op[r] \in Mutating /\ result[r] = "error"

\* C4: a Delete whose external call reports not-found returns success and
\* clears the local identifier.
C4_DeleteIdempotent ==
  \A r \in Records :
    (pc[r] = "deferred" /\ op[r] = "delete" /\ resp[r] = RespNotFound)
    => (result[r] = "ok" /\ d[r].id = <<>>)

\* C5: when GetLogsink reports not-found, Read clears the local identifier
\* and returns no error; on any other failure of GetLogsink Read returns an
\* error and leaves the record as it was.
C5_ReadDrift ==
  [][\A r \in Records :
       (pc[r] = "reading" /\ pc'[r] = "idle") =>
         /\ resp'[r] = RespNotFound =>
              (d'[r].id = <<>> /\ result'[r] = "ok")
         /\ (resp'[r].err /\ resp'[r] # RespNotFound) =>
              (result'[r] = "error" /\ d'[r] = d[r] /\ d'[r].id # <<>>)]_vars

\* A Read has found its log sink gone and dropped the record without error.
C5_Witness ==
  \E r \in Records :
    /\ pc[r] = "idle" /\ op[r] = "read"
    /\ resp[r] = RespNotFound /\ result[r] = "ok" /\ d[r].id = <<>>

\* The value the record holds for config field k: the zero value when the
\* map has no such key.
Observed(config, k) == IF k \in DOMAIN config THEN config[k] ELSE ZeroConfig[k]

\* C6: a Read that follows a successful Create, with no change made out of
\* band, leaves the record present with its name, its type and every config
\* field equal to the planned values.
C6_RoundTrip ==
  \A r \in Records :
    (pc[r] = "idle" /\ op[r] = "read" /\ fresh[r] /\ resp[r] = RespOK)
    => /\ result[r] = "ok"
       /\ d[r].id # <<>>
       /\ d[r].name = desired[r].name
       /\ d[r].type = desired[r].type
       /\ \A k \in ConfigKeys : Observed(d[r].config, k) = desired[r].config[k]

\* C7: when the external call of a Create, Update or Delete fails for a
\* reason other than not-found, the handler returns an error and the record
\* is as it was before the call; a failed Create leaves no record at all.
C7_UnchangedOnFailure ==
  [][\A r \in Records :
       /\ (/\ pc[r] = "calling" /\ pc'[r] = "deferred"
           /\ resp'[r].err /\ resp'[r] # RespNotFound)
          => /\ result'[r] = "error"
             /\ d'[r] = d[r]
             /\ op[r] = "create" => d'[r] = ZeroRecord
             /\ op[r] \in {"update", "delete"} => d'[r].id # <<>>
       /\ (pc[r] = "deferred" /\ pc'[r] = "idle" /\ result[r] = "error")
          => d'[r] = d[r]]_vars

\* An Update of an existing record has failed at the remote API.
C7_Witness ==
  \E r \in Records :
    /\ pc[r] = "deferred" /\ op[r] = "update"
    /\ resp[r] = RespServerError /\ result[r] = "error" /\ d[r].id # <<>>

\* The strings with no comma in them that fit into an import key.
Parts == {s \in ImportKeys : ~Contains(s, ",")}

\* C8: the import of "P,N" gives the record cluster_id P, name N and the ID
\* "P/logsink/N"; the import of a key without a comma fails and returns no
\* record.
C8_ImportFormat ==
  \A r \in Records :
    (pc[r] = "idle" /\ op[r] = "import") =>
      /\ \A P, N \in Parts :
           importID[r] = P \o <<",">> \o N =>
             /\ result[r] = "ok"
             /\ d[r].cluster_id = P
             /\ d[r].name = N
             /\ d[r].id = P \o <<"/logsink/">> \o N
      /\ (\A i \in 1..Len(importID[r]) : importID[r][i] # ",") =>
           (result[r] = "error" /\ d[r] = ZeroRecord)

\* The key "c,m" has been imported as "c/logsink/m".
C8_Witness ==
  \E r \in Records :
    /\ pc[r] = "idle" /\ op[r] = "import"
    /\ importID[r] = <<"c", ",", "m">>
    /\ d[r].id = <<"c", "/logsink/", "m">>

\* Exactly one comma, and a character on either side of it.
WellFormed(k) ==
  /\ Cardinality({i \in 1..Len(k) : k[i] = ","}) = 1
  /\ k[1] # ","
  /\ k[Len(k)] # ","

\* C9: the import of a key that does not have exactly one comma and two
\* non-empty parts fails and leaves no record.
C9_ImportRejectsMalformed ==
  \A r \in Records :
    (pc[r] = "idle" /\ op[r] = "import" /\ ~WellFormed(importID[r]))
    => (result[r] = "error" /\ d[r] = ZeroRecord)

\* C10: an operation whose deadline passed while it waited for the key of
\* its cluster never takes the key and never makes its external call.
C10_NoCallAfterDeadline ==
  \A r \in Records : expired[r] => ~InSection(r)

\* C11: a Read never enters the lock table: a step of a Read leaves the
\* table as it is, a Read that was started can return whatever keys are held,
\* and a waiting Create, Update or Delete whose key no other Create, Update
\* or Delete holds can take it whatever Reads are running.
C11_ReadNeverLocks ==
  /\ [](\A r \in Records :
          /\ pc[r] = "reading" =>
               (~Holds(r) /\ ENABLED ReadReturn(r))
          /\ (/\ pc[r] = "waiting"
              /\ \A q \in Records \ {r} :
                   InSection(q) => ClusterOf(q) # ClusterOf(r))
             => ENABLED Acquire(r))
  /\ [][\A r \in Records :
          (pc'[r] # pc[r] /\ "reading" \in {pc[r], pc'[r]})
          => table' = table]_vars

\* A Read runs on a log sink of a cluster while a Create, Update or Delete
\* on the same cluster is inside its external call with the key held.
C11_Witness ==
  \E r, q \in Records :
    /\ pc[r] = "reading" /\ pc[q] = "calling"
    /\ ClusterOf(r) = ClusterOf(q)

\* The remote log sinks with the cluster and the name of record r.
SinksOf(r) == {s \in remote : s.cluster = d[r].cluster_id /\ s.Name = d[r].name}

C13_DeletedIsGone ==
  /\ [](\A r \in Records :
          (pc[r] = "deferred" /\ op[r] = "delete" /\ result[r] = "ok") =>
            (d[r].id = <<>> /\ SinksOf(r) = {}))
  /\ []((\A r \in Records : pc[r] = "idle" /\ d[r].id = <<>>) => remote = {})
  /\ [][\A r \in Records :
          (/\ pc[r] = "calling" /\ pc'[r] = "deferred"
           /\ op[r] = "delete" /\ result'[r] = "ok")
          => /\ Found(d[r].cluster_id, d[r].id) # {}
             /\ \A s \in Found(d[r].cluster_id, d[r].id) :
                  s.Name = d[r].name /\ s \notin remote']_vars

\* Every record was created and then deleted with success, and nothing is
\* left at the remote API.
C13_Witness ==
  /\ \A r \in Records :
       pc[r] = "idle" /\ op[r] = "delete" /\ result[r] = "ok" /\ d[r].id = <<>>
  /\ remote = {}

\* C14: the key is held only around the external call: once the call of a
\* Create, Update or Delete has returned and the handler has set the ID and
\* the attributes of the record, the handler no longer holds the key.
C14_KeyOnlyAroundCall ==
  \A r \in Records :
    (pc[r] = "deferred" /\ op[r] \in Mutating /\ ~resp[r].nil) => ~Holds(r)

\* C15: with no change made out of band, the Read, Update and Delete of a
\* record that Create made address the log sink that Create made: the remote
\* API never answers them not-found.
C15_SameSinkAddressed ==
  \A r \in Records :
    op[r] \in {"read", "update", "delete"} => resp[r] # RespNotFound

\* C16: the ID of a record that exists is "<cluster_id>/logsink/<name>".
C16_LocalIDFormat ==
  \A r \in Records :
    (pc[r] = "idle" /\ d[r].id # <<>>)
    => d[r].id = d[r].cluster_id \o <<"/logsink/">> \o d[r].name

\* Record r holds the state of the remote log sink s, field by field.
Mirrors(rec, s) ==
  /\ rec.id = s.ID
  /\ rec.name = s.Name
  /\ rec.type = s.Type
  /\ \A k \in ConfigKeys : Observed(rec.config, k) = s.Config[k]

\* The step in which the external call of operation o on r is answered.
Answered(r, o) ==
  /\ op[r] = o
  /\ pc[r] \in {"calling", "reading"}
  /\ pc'[r] # pc[r]
  /\ resp'[r] = RespOK

\* C17: when a Read or an Update has succeeded, the record holds the state
\* of its remote log sink in every field.
C17_ObservedIsRemote ==
  [][\A r \in Records :
       (Answered(r, "read") \/ Answered(r, "update")) =>
         \E s \in remote' :
           s.cluster = d[r].cluster_id /\ Mirrors(d'[r], s)]_vars

\* C18: an Update that succeeded has sent the planned type and every planned
\* config field: the log sink it addressed has them all at the remote API.
C18_UpdateSendsFullSpec ==
  [][\A r \in Records :
       Answered(r, "update") =>
         \E s \in remote' :
           /\ s.cluster = desired[r].cluster_id
           /\ s.ID = desired[r].name
           /\ s.Type = desired[r].type
           /\ s.Config = desired[r].config]_vars

\* The keys operation r holds.
KeysHeld(r) == {k \in DOMAIN table : table[k].holder = r}

\* C19: an operation holds at most one key, the key of its cluster, and only
\* while it runs; every Create, Update or Delete that was started returns,
\* and when it has returned it holds no key.
C19_NoDeadlock ==
  /\ [](\A r \in Records :
          /\ KeysHeld(r) \subseteq {KeyOf(r)}
          /\ pc[r] = "idle" => KeysHeld(r) = {})
  /\ \A r \in Records :
       (pc[r] # "idle") ~> (pc[r] = "idle" /\ KeysHeld(r) = {})

\* Every record has an operation under way and one of them, on a cluster
\* another one works on too, waits for the key.
C19_Witness ==
  /\ \A r \in Records : pc[r] # "idle"
  /\ \E r, q \in Records :
       /\ pc[r] = "waiting" /\ InSection(q)
       /\ ClusterOf(r) = ClusterOf(q)

====
